---------------------------- MODULE Spec2Model ----------------------------
(***************************************************************************)
(* Model of src/app.py (MyInvoice): the record store kept in the invoices  *)
(* folder and its .trash subfolder, the single undo slot, the listings     *)
(* shown on the Receipts and Reports pages, the invoice form, and the      *)
(* invoice-number sequencer.                                               *)
(*                                                                         *)
(* File names are sequences of one-character strings, so that splitext,    *)
(* the digit scan of set_next_invoice_number, the sanitizer of             *)
(* save_invoice_fullwidth and the collision suffixes are computed          *)
(* character by character as the code computes them.                       *)
(*                                                                         *)
(* Numbers: a quantity is an integer count of tenths, a unit price an      *)
(* integer count of cents, so quantity x unit price is an integer count    *)
(* of thousandths ("mills").  round(x, 2) and the "%.2f" format are        *)
(* rounding to whole cents (ties to even).                                 *)
(***************************************************************************)
EXTENDS Integers, Sequences, FiniteSets, TLC

VARIABLES
    active,         \* files of invoices_folder: file name -> content
    trash,          \* files of trash_folder:    file name -> content
    last_deleted,   \* the undo slot: <<>> (None) or <<moved_pdf, moved_json>>
    receipts,       \* rows of receipts_listbox (file names, in display order)
    reports,        \* rows of reports_tree (in display order)
    page,           \* the page lifted to the front
    inv_ent,        \* text of the "Invoice #" entry
    editing_base,   \* InvoicePage.editing_base: <<>> (None) or a file stem
    items,          \* SidebarApp.items
    tree,           \* rows of the item table of the Invoice page, top to bottom
    tax_ent,        \* text of the "Tax (%)" entry
    disc_ent,       \* text of the "Discount" entry
    logo_path,      \* SidebarApp.logo_path: "None" or the path of the logo file
    logo_in_memory, \* SidebarApp.logo_in_memory: "None" or the image
    signature_image, \* SidebarApp.signature_image: "None" or the image
    last,           \* the handler that ran last and what it reported
    used            \* the part of MaxBudget the run has used so far

\* The logo and the signature of the form.
imgs == <<logo_path, logo_in_memory, signature_image>>

vars == <<active, trash, last_deleted, receipts, reports, page, inv_ent,
          editing_base, items, tree, tax_ent, disc_ent, logo_path, logo_in_memory,
          signature_image, last, used>>

-----------------------------------------------------------------------------
(* Characters and strings                                                  *)

\* The characters of the model in code-point order (str comparison and
\* list.sort compare strings by code point).
CharOrder ==
    <<"-", ".", "/", "0", "1", "2", "3", "4", "5", "6", "7", "8", "9",
      "D", "F", "P", "_", "a", "c", "d", "e", "f", "h", "i", "j", "n",
      "o", "p", "r", "s", "t", "v", "x">>

Code(c) == CHOOSE i \in 1..Len(CharOrder) : CharOrder[i] = c

DigitChars == <<"0", "1", "2", "3", "4", "5", "6", "7", "8", "9">>

\* str.isdigit for one character
IsDigitChar(c) == \E i \in 1..10 : DigitChars[i] = c

DigitValue(c) == (CHOOSE i \in 1..10 : DigitChars[i] = c) - 1

\* str.isalnum for one character
IsAlnumChar(c) ==
    \/ IsDigitChar(c)
    \/ c \in {"D", "F", "P", "a", "c", "d", "e", "f", "h", "i", "j", "n",
              "o", "p", "r", "s", "t", "v", "x"}

\* str.lower for one character
LowerChar(c) ==
    CASE c = "D" -> "d"
      [] c = "F" -> "f"
      [] c = "P" -> "p"
      [] OTHER   -> c

Lower(s) == [i \in 1..Len(s) |-> LowerChar(s[i])]

\* name.isdigit(): non-empty and every character a digit
IsDigitStr(s) == Len(s) > 0 /\ \A i \in 1..Len(s) : IsDigitChar(s[i])

\* ''.join(ch for ch in name if ch.isdigit())
OnlyDigits(s) == SelectSeq(s, IsDigitChar)

\* int(s) of a string of digits
RECURSIVE IntOf(_)
IntOf(s) ==
    IF Len(s) = 0 THEN 0
    ELSE 10 * IntOf(SubSeq(s, 1, Len(s) - 1)) + DigitValue(s[Len(s)])

\* str(n) of an integer n >= 0
RECURSIVE StrOf(_)
StrOf(n) ==
    IF n < 10 THEN <<DigitChars[n + 1]>>
    ELSE StrOf(n \div 10) \o <<DigitChars[(n % 10) + 1]>>

\* s.endswith(suffix)
EndsWith(s, suffix) ==
    /\ Len(s) >= Len(suffix)
    /\ SubSeq(s, Len(s) - Len(suffix) + 1, Len(s)) = suffix

\* s < t in Python's string order
RECURSIVE StrLess(_, _)
StrLess(s, t) ==
    IF Len(t) = 0 THEN FALSE
    ELSE IF Len(s) = 0 THEN TRUE
    ELSE IF s[1] = t[1] THEN StrLess(Tail(s), Tail(t))
    ELSE Code(s[1]) < Code(t[1])

\* sorted(S, reverse=True) of a set of strings
RECURSIVE SortDesc(_)
SortDesc(S) ==
    IF S = {} THEN <<>>
    ELSE LET m == CHOOSE x \in S : \A y \in S \ {x} : StrLess(y, x)
         IN  <<m>> \o SortDesc(S \ {m})

PdfExt == <<".", "p", "d", "f">>
JsonExt == <<".", "j", "s", "o", "n">>

\* The position of the dot at which os.path.splitext splits, 0 when none:
\* the last dot, unless only dots precede it.
SplitPos(name) ==
    LET dots == {i \in 1..Len(name) : name[i] = "."}
        lastDot == CHOOSE i \in dots : \A j \in dots : j <= i
    IN  IF dots = {} THEN 0
        ELSE IF \A j \in 1..(lastDot - 1) : name[j] = "." THEN 0
        ELSE lastDot

\* os.path.splitext(name)[0]
Stem(name) ==
    IF SplitPos(name) = 0 THEN name ELSE SubSeq(name, 1, SplitPos(name) - 1)

\* os.path.splitext(name)[1]
Ext(name) ==
    IF SplitPos(name) = 0 THEN <<>> ELSE SubSeq(name, SplitPos(name), Len(name))


-----------------------------------------------------------------------------
(* Numbers of the form and of the totals                                   *)

\* round-to-nearest of x / unit, ties to even (round(x, 2) and "%.2f")
RoundDiv(x, unit) ==
    LET q == x \div unit
        r == x % unit
    IN  IF 2 * r < unit THEN q
        ELSE IF 2 * r > unit THEN q + 1
        ELSE IF q % 2 = 0 THEN q ELSE q + 1

\* float(text) of the texts an entry can hold, in hundredths; ok = FALSE
\* where float() raises ValueError.  The callers pass `text.strip() or 0`,
\* so the empty text reads as 0.
FloatOf(text) ==
    CASE text = ""     -> [ok |-> TRUE,  val |-> 0]
      [] text = "0.00" -> [ok |-> TRUE,  val |-> 0]
      [] text = "0.0"  -> [ok |-> TRUE,  val |-> 0]
      [] text = "6"    -> [ok |-> TRUE,  val |-> 600]
      [] text = "6.0"  -> [ok |-> TRUE,  val |-> 600]
      [] text = "1.00" -> [ok |-> TRUE,  val |-> 100]
      [] text = "1.0"  -> [ok |-> TRUE,  val |-> 100]
      [] OTHER         -> [ok |-> FALSE, val |-> 0]

\* str(x or 0.0) of a float given in hundredths (load_invoice_data)
FloatStr(val) ==
    CASE val = 0   -> "0.0"
      [] val = 600 -> "6.0"
      [] val = 100 -> "1.0"
      [] OTHER     -> "?"

\* One line item: qty in tenths, unit_price in cents.
Item(desc, qty, unit_price) ==
    [desc |-> desc, qty |-> qty, unit_price |-> unit_price]

\* An item whose qty (unit_price) is missing, or is a value float() rejects,
\* is a record without that field.
\* float(it.get('qty', 0)) in try/except with 0.0 for the exception
ItemQty(it) == IF "qty" \in DOMAIN it THEN it.qty ELSE 0

\* float(it.get('unit_price', 0.0)) in try/except with 0.0 for the exception
ItemUnit(it) == IF "unit_price" \in DOMAIN it THEN it.unit_price ELSE 0

\* the values of a row of the item table: description, quantity, unit
\* price and amount (quantity x unit price to 2 decimals, in cents)
Row(it) ==
    [desc |-> it.desc, qty |-> ItemQty(it), unit |-> ItemUnit(it),
     amt |-> RoundDiv(ItemQty(it) * ItemUnit(it), 10)]

Rows(its) == [i \in DOMAIN its |-> Row(its[i])]

\* list.pop(idx) and Treeview.delete of the row at index idx (from 0)
Pop(seq, idx) ==
    [i \in 1..(Len(seq) - 1) |-> IF i <= idx THEN seq[i] ELSE seq[i + 1]]

\* The sum of the products qty * unit, no product rounded (in mills).
RECURSIVE SumOfProducts(_)
SumOfProducts(its) ==
    IF Len(its) = 0 THEN 0
    ELSE SumOfProducts(SubSeq(its, 1, Len(its) - 1))
         + ItemQty(its[Len(its)]) * ItemUnit(its[Len(its)])

\* A subtotal that rounds the sum instead of each line amount.
DocSubtotalRoundedOnce(its) == RoundDiv(SumOfProducts(its), 10)

\* make_invoice: amt = round(qty * unit, 2); subtotal += amt   (in cents)
RECURSIVE DocSubtotal(_)
DocSubtotal(its) ==
    IF Len(its) = 0 THEN 0
    ELSE DocSubtotal(SubSeq(its, 1, Len(its) - 1))
         + RoundDiv(ItemQty(its[Len(its)]) * ItemUnit(its[Len(its)]), 10)

\* make_invoice: tax = round(subtotal * (tax_percent / 100.0), 2)   (in cents)
DocTax(its, tax_rate) == RoundDiv(DocSubtotal(its) * tax_rate, 10000)

\* make_invoice: total = round(subtotal + tax - discount, 2)   (in cents)
DocTotal(its, tax_rate, discount) ==
    DocSubtotal(its) + DocTax(its, tax_rate) - discount

\* load_reports_table: subtotal += q * u, not rounded   (in mills)
RECURSIVE ReportSubtotal(_)
ReportSubtotal(its) ==
    IF Len(its) = 0 THEN 0
    ELSE ReportSubtotal(SubSeq(its, 1, Len(its) - 1))
         + ItemQty(its[Len(its)]) * ItemUnit(its[Len(its)])

\* load_reports_table: tax_amt = subtotal * (tax_pct / 100.0), not rounded
\* (in 1/10000 of a mill)
ReportTax(its, tax_rate) == ReportSubtotal(its) * tax_rate

\* load_reports_table: total = subtotal + tax_amt - discount
\* (in 1/10000 of a mill)
ReportTotal(its, tax_rate, discount) ==
    ReportSubtotal(its) * 10000 + ReportTax(its, tax_rate) - discount * 100000

\* update_totals: subtotal += float(qty) * float(unit_price), not rounded
\* (in mills)
RECURSIVE FormSubtotal(_)
FormSubtotal(its) ==
    IF Len(its) = 0 THEN 0
    ELSE FormSubtotal(SubSeq(its, 1, Len(its) - 1))
         + ItemQty(its[Len(its)]) * ItemUnit(its[Len(its)])

\* update_totals: float(entry.get().strip() or 0), 0.0 when that raises
FormFloat(text) == IF FloatOf(text).ok THEN FloatOf(text).val ELSE 0

\* update_totals: total = subtotal + subtotal * (tax_percent / 100.0) - disc
\* (in 1/10000 of a mill)
FormTotal(its, tax_text, disc_text) ==
    FormSubtotal(its) * 10000 + FormSubtotal(its) * FormFloat(tax_text)
    - FormFloat(disc_text) * 100000

\* subtotal_var and total_var as update_totals sets them, currency() keeping
\* two decimals (in cents).  Every handler that changes the items, the tax
\* entry or the discount entry ends with update_totals.
subtotal_var == RoundDiv(FormSubtotal(items), 10)

total_var == RoundDiv(FormTotal(items, tax_ent, disc_ent), 100000)

-----------------------------------------------------------------------------
(* File contents and folders                                               *)

\* An invoice dict of an empty form.
NoData ==
    [invoice_number |-> <<>>, items |-> <<>>, tax_rate |-> 0, discount |-> 0,
     logo_path |-> "None", logo_image |-> "None", signature_image |-> "None"]

\* What make_invoice renders into the document: the invoice, and the totals
\* block (in cents).
PdfOf(inv) ==
    [kind |-> "pdf", data |-> inv,
     totals |-> [subtotal |-> DocSubtotal(inv.items),
                 tax      |-> DocTax(inv.items, inv.tax_rate),
                 total    |-> DocTotal(inv.items, inv.tax_rate, inv.discount)]]

\* A metadata file that holds the invoice dict as it is.
JsonOfWholeDict(inv) ==
    [kind |-> "json",
     data |-> [k \in DOMAIN inv \cup {"signature_saved_in_pdf_only"} |->
                 IF k = "signature_saved_in_pdf_only"
                 THEN inv.signature_image # "None" ELSE inv[k]]]

\* What save_invoice_fullwidth hands to json.dump, and json.load reads
\* back: dict(inv) without "signature_image" and "logo_image", and with
\* "signature_saved_in_pdf_only" when a signature is held in memory (FALSE
\* stands for the key being absent).
JsonOf(inv) ==
    [kind |-> "json",
     data |-> [k \in (DOMAIN inv \ {"signature_image", "logo_image"})
                     \cup {"signature_saved_in_pdf_only"} |->
                 IF k = "signature_saved_in_pdf_only"
                 THEN inv.signature_image # "None" ELSE inv[k]]]

\* A file whose write was cut short: not a document, not parseable JSON.
Partial == [kind |-> "partial", data |-> NoData]

\* A file of valid JSON that is not an object (a list, a number, ...):
\* json.load returns it, and its .get raises AttributeError.
NonObject == [kind |-> "nonobject", data |-> NoData]

NoFiles == [n \in {} |-> Partial]

\* A folder with file n (over)written with content c.
\* A write that leaves an existing file as it is.
WriteFileKeepOld(dir, n, c) ==
    IF n \in DOMAIN dir THEN dir
    ELSE [x \in DOMAIN dir \cup {n} |-> IF x = n THEN c ELSE dir[x]]

WriteFile(dir, n, c) ==
    [x \in (DOMAIN dir) \cup {n} |-> IF x = n THEN c ELSE dir[x]]

\* A folder without file n.
RemoveFile(dir, n) == [x \in (DOMAIN dir) \ {n} |-> dir[x]]

\* os.path.exists
Exists(dir, n) == n \in DOMAIN dir

-----------------------------------------------------------------------------
(* Listings                                                                *)

\* The name of the trash folder inside the invoices folder.
TrashDir == <<".", "t", "r", "a", "s", "h">>

\* os.listdir(invoices_folder): the files and the trash folder
ListDir(dir) == DOMAIN dir \cup {TrashDir}

\* load_receipts_list with the test of the ending on the name as it is
ListReceiptsCaseSensitive(dir) ==
    SortDesc({f \in ListDir(dir) : EndsWith(f, PdfExt)})

\* load_receipts_list: the entries put in the listbox
ListReceipts(dir) ==
    SortDesc({f \in ListDir(dir) : EndsWith(Lower(f), PdfExt)})

\* load_reports_table: the row of one parsed metadata file
ReportRow(jf, data) ==
    [jf         |-> jf,
     invoice_no |-> IF data.invoice_number # <<>> THEN data.invoice_number
                    ELSE Stem(jf),
     tax_pct    |-> data.tax_rate,
     discount   |-> data.discount,
     subtotal   |-> RoundDiv(ReportSubtotal(data.items), 10),
     tax_amt    |-> RoundDiv(ReportTax(data.items, data.tax_rate), 100000),
     total      |-> RoundDiv(ReportTotal(data.items, data.tax_rate, data.discount),
                             100000)]

\* load_reports_table: the loop over the metadata files in descending order
\* of file name.  A file json.load rejects is skipped (`continue`); a file
\* json.load accepts gets a row, unless building the row raises, which ends
\* the loop in the handler's outer except with the rows inserted so far.
RECURSIVE ReportRows(_, _)
ReportRows(dir, files) ==
    IF Len(files) = 0 THEN <<>>
    ELSE LET jf == Head(files)
         IN  CASE dir[jf].kind = "json" ->
                    <<ReportRow(jf, dir[jf].data)>> \o ReportRows(dir, Tail(files))
               [] dir[jf].kind = "nonobject" -> <<>>
               [] OTHER -> ReportRows(dir, Tail(files))

ListReports(dir) ==
    ReportRows(dir, SortDesc({f \in ListDir(dir) : EndsWith(Lower(f), JsonExt)}))

-----------------------------------------------------------------------------
(* Invoice numbering                                                       *)

\* invoice_list_files
InvoiceListFiles(dir) == SortDesc({fn \in ListDir(dir) : EndsWith(fn, JsonExt)})

Max2(a, b) == IF a >= b THEN a ELSE b

\* The loop without its fallback to the digits of a name that has other
\* characters.
RECURSIVE MaxNumDigitNamesOnly(_, _)
MaxNumDigitNamesOnly(files, max_num) ==
    IF Len(files) = 0 THEN max_num
    ELSE LET name == Stem(Head(files))
         IN  IF IsDigitStr(name)
             THEN MaxNumDigitNamesOnly(Tail(files), Max2(max_num, IntOf(name)))
             ELSE MaxNumDigitNamesOnly(Tail(files), max_num)

\* The loop of set_next_invoice_number over the files: max_num
RECURSIVE MaxNum(_, _)
MaxNum(files, max_num) ==
    IF Len(files) = 0 THEN max_num
    ELSE LET name == Stem(Head(files))
             digits == OnlyDigits(name)
         IN  IF IsDigitStr(name)
             THEN MaxNum(Tail(files), Max2(max_num, IntOf(name)))
             ELSE IF Len(digits) > 0
                  THEN MaxNum(Tail(files), Max2(max_num, IntOf(digits)))
                  ELSE MaxNum(Tail(files), max_num)

\* set_next_invoice_number: the text inserted in the "Invoice #" entry
NextInvoiceNumber(dir) == StrOf(MaxNum(InvoiceListFiles(dir), 0) + 1)

-----------------------------------------------------------------------------
(* Moving files between the folders                                        *)

\* f"{base}{infix}{i}{ext}" of a file name
Suffixed(name, infix, i) == Stem(name) \o infix \o StrOf(i) \o Ext(name)

\* A destination chosen without the collision loop.
FreeNameOverwrite(dir, name, infix) == name

\* The destination the collision loops of move_to_trash and restore settle
\* on: the name itself when unused in dir, else the first unused
\* f"{base}{infix}{i}{ext}", i = 1, 2, ...
FreeName(dir, name, infix) ==
    IF ~Exists(dir, name) THEN name
    ELSE LET n == Cardinality(DOMAIN dir) + 1
             i == CHOOSE k \in 1..n :
                    /\ ~Exists(dir, Suffixed(name, infix, k))
                    /\ \A j \in 1..(k - 1) : Exists(dir, Suffixed(name, infix, j))
         IN  Suffixed(name, infix, i)

\* The outcomes of os.replace and, when it raises, of shutil.copy2 and
\* os.remove:
\*   "moved"  - os.replace worked, or copy2 and remove both worked
\*   "copied" - os.replace raised, copy2 wrote dest, then copy2 or os.remove
\*              raised: the file is in both folders
\*   "failed" - os.replace and copy2 raised: nothing changed
MoveOutcomes == {"moved", "copied", "failed"}

\* The file operations of one move of file n of folder from to name dest of
\* folder to, under outcome o: the two folders afterwards.
MoveFile(from, to, n, dest, o) ==
    CASE o = "moved"  -> [from |-> RemoveFile(from, n),
                          to   |-> WriteFile(to, dest, from[n])]
      [] o = "copied" -> [from |-> from,
                          to   |-> WriteFile(to, dest, from[n])]
      [] OTHER        -> [from |-> from, to |-> to]

TrashInfix == <<"_">>
RestoredInfix == <<"_", "r", "e", "s", "t", "o", "r", "e", "d", "_">>

\* move_to_trash leaving the file in the invoices folder as well
MoveToTrashKeepSource(act, tr, src, o) ==
    IF ~Exists(act, src)
    THEN [act |-> act, tr |-> tr, ret |-> <<>>, io |-> "skip"]
    ELSE LET dest == FreeName(tr, src, TrashInfix)
             m == MoveFile(act, tr, src, dest, o)
         IN  [act |-> act, tr |-> m.to,
              ret |-> IF o = "moved" THEN dest ELSE <<>>,
              io  |-> o]

\* move_to_trash returning the destination also when the move failed
MoveToTrashAlwaysDest(act, tr, src, o) ==
    IF ~Exists(act, src)
    THEN [act |-> act, tr |-> tr, ret |-> <<>>, io |-> "skip"]
    ELSE LET dest == FreeName(tr, src, TrashInfix)
             m == MoveFile(act, tr, src, dest, o)
         IN  [act |-> m.from, tr |-> m.to, ret |-> dest, io |-> o]

\* delete_selected_receipt.move_to_trash(src): the folders afterwards and
\* the value returned (<<>> for None, else the path in the trash folder).
MoveToTrash(act, tr, src, o) ==
    IF ~Exists(act, src)
    THEN [act |-> act, tr |-> tr, ret |-> <<>>, io |-> "skip"]
    ELSE LET dest == FreeName(tr, src, TrashInfix)
             m == MoveFile(act, tr, src, dest, o)
         IN  [act |-> m.from, tr |-> m.to,
              ret |-> IF o = "moved" THEN dest ELSE <<>>,
              io  |-> o]

\* undo_delete.restore(src): the folders afterwards and the kind of value
\* returned: "none" for None, "dest" for the destination path, "error" for
\* the text of the exception.
Restore(act, tr, src, o) ==
    IF src = <<>> \/ ~Exists(tr, src)
    THEN [act |-> act, tr |-> tr, kind |-> "none", io |-> "skip"]
    ELSE LET dest == FreeName(act, src, RestoredInfix)
             m == MoveFile(tr, act, src, dest, o)
         IN  [act |-> m.to, tr |-> m.from,
              kind |-> IF o = "moved" THEN "dest" ELSE "error",
              io   |-> o]

\* the count of an undo that appends nothing to `restored`
RestoredEntriesNone(src, r) == 0

\* undo_delete: what one `if moved_x:` block adds to `restored`: nothing
\* when the slot entry is None or restore returned the text of an exception
\* (a string that is no existing path), else one element, None included.
RestoredEntries(src, r) ==
    IF src = <<>> THEN 0
    ELSE IF r.kind = "error" THEN 0
    ELSE 1

-----------------------------------------------------------------------------
(* The handlers                                                            *)

\* What ran last (a handler, or "outside" for a change made to a folder by
\* another program), on which file or key, what dialog it ended with, the outcomes of its file operations, the number it reported
\* and the receipts listing of the folder when it started.
Ran(op, result, name, io, count, pre) ==
    [op |-> op, result |-> result, name |-> name, io |-> io,
     count |-> count, pre |-> pre]

\* A handler ran that shows no dialog and touches no file.
Idle == Ran("none", "none", <<>>, <<>>, 0, <<>>)

\* date.today().isoformat()
Today == <<"2", "0", "2", "6", "-", "1", "1", "-", "0", "6">>

SafeChar(c) == IsAlnumChar(c) \/ c \in {"-", "_"}

\* the base name taken from the invoice number in either mode
SaveBaseFromNumber(editing, invoice_number) ==
    LET base == IF invoice_number # <<>> THEN invoice_number
                ELSE <<"i", "n", "v", "-">> \o Today
        safe == SelectSeq(base, SafeChar)
    IN  IF safe # <<>> THEN safe
        ELSE <<"i", "n", "v", "o", "i", "c", "e", "-">> \o Today

\* save_invoice_fullwidth: the filename base `safe`
SaveBase(editing, invoice_number) ==
    IF editing # <<>> THEN editing
    ELSE LET base == IF invoice_number # <<>> THEN invoice_number
                     ELSE <<"i", "n", "v", "-">> \o Today
             safe == SelectSeq(base, SafeChar)
         IN  IF safe # <<>> THEN safe
             ELSE <<"i", "n", "v", "o", "i", "c", "e", "-">> \o Today

\* build_invoice_data: the invoice dict (float() of the two entries has
\* succeeded; the "Bill To" box holds the text the form puts there)
BuildInvoiceData ==
    [invoice_number  |-> inv_ent,
     items           |-> items,
     tax_rate        |-> FloatOf(tax_ent).val,
     discount        |-> FloatOf(disc_ent).val,
     logo_path       |-> logo_path,
     logo_image      |-> logo_in_memory,
     signature_image |-> signature_image]

\* The outcomes of make_invoice: the document written; an exception before
\* the file is opened; an exception after part of it was written.
DocOutcomes == {"ok", "error", "partial"}

\* The outcomes of open(json_fn, "w") and json.dump: written; open raised;
\* the write raised after open truncated the file.
JsonOutcomes == {"ok", "error", "partial"}

\* A save that writes the metadata whatever became of the document.
SaveFilesMetaAlways(dir, safe, inv, docOut, jsonOut) ==
    LET pdf_fn == safe \o PdfExt
        json_fn == safe \o JsonExt
        a1 == CASE docOut = "error" -> dir
                [] docOut = "partial" -> WriteFile(dir, pdf_fn, Partial)
                [] OTHER -> WriteFile(dir, pdf_fn, PdfOf(inv))
        a2 == CASE jsonOut = "error" -> a1
                [] jsonOut = "partial" -> WriteFile(a1, json_fn, Partial)
                [] OTHER -> WriteFile(a1, json_fn, JsonOf(inv))
    IN  [dir |-> a2,
         result |-> IF docOut # "ok" THEN "pdf_error"
                    ELSE IF jsonOut # "ok" THEN "json_warning" ELSE "saved",
         io |-> IF docOut # "ok" THEN <<docOut>> ELSE <<docOut, jsonOut>>]

\* A save that removes the document again when the metadata write fails.
SaveFilesRollback(dir, safe, inv, docOut, jsonOut) ==
    LET pdf_fn == safe \o PdfExt
        json_fn == safe \o JsonExt
        a1 == WriteFile(dir, pdf_fn, PdfOf(inv))
    IN  CASE docOut = "error" ->
               [dir |-> dir, result |-> "pdf_error", io |-> <<docOut>>]
          [] docOut = "partial" ->
               [dir |-> WriteFile(dir, pdf_fn, Partial), result |-> "pdf_error",
                io |-> <<docOut>>]
          [] docOut = "ok" /\ jsonOut # "ok" ->
               [dir |-> RemoveFile(dir, pdf_fn), result |-> "json_warning",
                io |-> <<docOut, jsonOut>>]
          [] OTHER ->
               [dir |-> WriteFile(a1, json_fn, JsonOf(inv)), result |-> "saved",
                io |-> <<docOut, jsonOut>>]

\* save_invoice_fullwidth from make_invoice to the end of the metadata
\* write: the invoices folder afterwards and the dialog shown.  The document
\* is written first; an exception of make_invoice returns before the
\* metadata is opened; an exception of the metadata write returns with the
\* document in place.
SaveFiles(dir, safe, inv, docOut, jsonOut) ==
    LET pdf_fn == safe \o PdfExt
        json_fn == safe \o JsonExt
        a1 == WriteFile(dir, pdf_fn, PdfOf(inv))
    IN  CASE docOut = "error" ->
               [dir |-> dir, result |-> "pdf_error", io |-> <<docOut>>]
          [] docOut = "partial" ->
               [dir |-> WriteFile(dir, pdf_fn, Partial), result |-> "pdf_error",
                io |-> <<docOut>>]
          [] docOut = "ok" /\ jsonOut = "error" ->
               [dir |-> a1, result |-> "json_warning", io |-> <<docOut, jsonOut>>]
          [] docOut = "ok" /\ jsonOut = "partial" ->
               [dir |-> WriteFile(a1, json_fn, Partial), result |-> "json_warning",
                io |-> <<docOut, jsonOut>>]
          [] OTHER ->
               [dir |-> WriteFile(a1, json_fn, JsonOf(inv)), result |-> "saved",
                io |-> <<docOut, jsonOut>>]

\* save_invoice_fullwidth (the "Save Invoice" button; "Save anyway?" is
\* answered Yes when there are no items)
SaveInvoice(docOut, jsonOut) ==
    /\ UNCHANGED imgs
    /\ page = "invoice"
    /\ UNCHANGED <<trash, last_deleted, page, editing_base, items, tree, tax_ent, disc_ent>>
    /\ IF ~FloatOf(tax_ent).ok \/ ~FloatOf(disc_ent).ok
       THEN \* build_invoice_data raises ValueError out of the handler
            /\ last' = Ran("save", "uncaught", <<>>, <<>>, 0, <<>>)
            /\ UNCHANGED <<active, receipts, reports, inv_ent>>
       ELSE LET inv == BuildInvoiceData
                safe == SaveBase(editing_base, inv.invoice_number)
                w == SaveFiles(active, safe, inv, docOut, jsonOut)
            IN  /\ active' = w.dir
                /\ last' = Ran("save", w.result, safe, w.io, 0, ListReceipts(active))
                /\ IF w.result = "saved"
                   THEN /\ receipts' = ListReceipts(w.dir)
                        /\ reports' = ListReports(w.dir)
                        /\ inv_ent' = IF editing_base = <<>>
                                      THEN NextInvoiceNumber(w.dir) ELSE inv_ent
                   ELSE UNCHANGED <<receipts, reports, inv_ent>>

\* A slot that keeps the handle it already holds.
DeletedHandleKeepOld(moved_pdf, moved_json) ==
    IF last_deleted # <<>> THEN last_deleted
    ELSE IF moved_pdf # <<>> \/ moved_json # <<>> THEN <<moved_pdf, moved_json>>
    ELSE <<>>

\* delete_selected_receipt: the value stored in last_deleted
DeletedHandle(moved_pdf, moved_json) ==
    IF moved_pdf # <<>> \/ moved_json # <<>> THEN <<moved_pdf, moved_json>> ELSE <<>>

\* delete_selected_receipt (the "Delete Selected" button, answered Yes) on
\* the listbox row `name`
DeleteSelectedReceipt(name, o1, o2) ==
    /\ UNCHANGED imgs
    /\ page = "receipts"
    /\ \E i \in 1..Len(receipts) : receipts[i] = name
    /\ LET json_path == Stem(name) \o JsonExt
           r1 == MoveToTrash(active, trash, name, o1)
           r2 == IF Exists(r1.act, json_path)
                 THEN MoveToTrash(r1.act, r1.tr, json_path, o2)
                 ELSE [act |-> r1.act, tr |-> r1.tr, ret |-> <<>>, io |-> "skip"]
           slot == DeletedHandle(r1.ret, r2.ret)
       IN  /\ active' = r2.act
           /\ trash' = r2.tr
           /\ last_deleted' = slot
           /\ receipts' = ListReceipts(r2.act)
           /\ reports' = ListReports(r2.act)
           /\ last' = Ran("delete", IF slot # <<>> THEN "deleted" ELSE "none",
                          name, <<r1.io, r2.io>>, 0, ListReceipts(active))
    /\ UNCHANGED <<page, inv_ent, editing_base, items, tree, tax_ent, disc_ent>>

\* undo_delete (the "Undo Delete" button)
UndoDelete(o1, o2) ==
    /\ UNCHANGED imgs
    /\ page = "receipts"
    /\ UNCHANGED <<page, inv_ent, editing_base, items, tree, tax_ent, disc_ent>>
    /\ IF last_deleted = <<>>
       THEN /\ last' = Ran("undo", "nothing", <<>>, <<>>, 0, <<>>)
            /\ UNCHANGED <<active, trash, last_deleted, receipts, reports>>
       ELSE LET moved_pdf == last_deleted[1]
                moved_json == last_deleted[2]
                r1 == Restore(active, trash, moved_pdf, o1)
                r2 == Restore(r1.act, r1.tr, moved_json, o2)
                n == RestoredEntries(moved_pdf, r1) + RestoredEntries(moved_json, r2)
            IN  /\ active' = r2.act
                /\ trash' = r2.tr
                /\ IF n > 0
                   THEN /\ last_deleted' = <<>>
                        /\ receipts' = ListReceipts(r2.act)
                        /\ reports' = ListReports(r2.act)
                        /\ last' = Ran("undo", "restored", <<>>, <<r1.io, r2.io>>,
                                       n, <<>>)
                   ELSE /\ UNCHANGED <<last_deleted, receipts, reports>>
                        /\ last' = Ran("undo", "failed", <<>>, <<r1.io, r2.io>>,
                                       0, <<>>)

\* edit_selected_receipt (the "Edit Selected" button) on the listbox row
\* `name`, with load_invoice_data
EditSelectedReceipt(name) ==
    /\ page = "receipts"
    /\ \E i \in 1..Len(receipts) : receipts[i] = name
    /\ UNCHANGED <<active, trash, last_deleted, receipts, reports>>
    /\ LET base == Stem(name)
           json_path == base \o JsonExt
           pre == <<>>
       IN  IF ~Exists(active, json_path)
           THEN /\ last' = Ran("edit", "no_json", name, <<>>, 0, pre)
                /\ UNCHANGED <<page, inv_ent, editing_base, items, tree, tax_ent, disc_ent>>
                /\ UNCHANGED imgs
           ELSE IF active[json_path].kind = "nonobject"
           THEN \* load_invoice_data has set editing_base when inv_data.get
                \* raises; its except shows the error, and show_page follows
                /\ editing_base' = base
                /\ page' = "invoice"
                /\ last' = Ran("edit", "load_failed", name, <<>>, 0, pre)
                /\ UNCHANGED <<inv_ent, items, tree, tax_ent, disc_ent>>
                /\ UNCHANGED imgs
           ELSE IF active[json_path].kind # "json"
           THEN /\ last' = Ran("edit", "load_error", name, <<>>, 0, pre)
                /\ UNCHANGED <<page, inv_ent, editing_base, items, tree, tax_ent, disc_ent>>
                /\ UNCHANGED imgs
           ELSE LET data == active[json_path].data
                IN  /\ editing_base' = base
                    /\ inv_ent' = IF data.invoice_number # <<>>
                                  THEN data.invoice_number ELSE base
                    /\ items' = [i \in DOMAIN data.items |->
                                    Item(data.items[i].desc, ItemQty(data.items[i]),
                                         ItemUnit(data.items[i]))]
                    /\ tree' = [i \in DOMAIN data.items |->
                                   Row(Item(data.items[i].desc, ItemQty(data.items[i]),
                                            ItemUnit(data.items[i])))]
                    /\ tax_ent' = FloatStr(data.tax_rate)
                    /\ disc_ent' = FloatStr(data.discount)
                    /\ logo_path' = data.logo_path
                    /\ logo_in_memory' \in
                          IF data.logo_path = "None" THEN {"None"}
                          ELSE {"None", "logo"}   \* the file is gone or not
                    /\ signature_image' = "None"
                    /\ page' = "invoice"
                    /\ last' = Ran("edit", "loaded", name, <<>>, 0, pre)

\* new_invoice (the "Home" and "Create New Invoice" buttons): clear_form,
\* set_next_invoice_number, show_page("invoice")
NewInvoice ==
    /\ editing_base' = <<>>
    /\ items' = <<>>
    /\ tree' = <<>>
    /\ tax_ent' = "0.00"
    /\ disc_ent' = "0.00"
    /\ logo_path' = "None"
    /\ logo_in_memory' = "None"
    /\ signature_image' = "None"
    /\ inv_ent' = NextInvoiceNumber(active)
    /\ page' = "invoice"
    /\ last' = Idle
    /\ UNCHANGED <<active, trash, last_deleted, receipts, reports>>

\* show_page(name) (the sidebar buttons "Invoice", "Receipts", "Reports")
ShowPage(name) ==
    /\ UNCHANGED imgs
    /\ page' = name
    /\ receipts' = IF name = "receipts" THEN ListReceipts(active) ELSE receipts
    /\ reports' = IF name = "reports" THEN ListReports(active) ELSE reports
    /\ last' = Idle
    /\ UNCHANGED <<active, trash, last_deleted, inv_ent, editing_base, items, tree,
                   tax_ent, disc_ent>>

\* The user types `text` in the "Invoice #" entry.
TypeInvoiceNumber(text) ==
    /\ UNCHANGED imgs
    /\ page = "invoice"
    /\ inv_ent' = text
    /\ last' = Idle
    /\ UNCHANGED <<active, trash, last_deleted, receipts, reports, page,
                   editing_base, items, tree, tax_ent, disc_ent>>

\* The user types `text` in the "Tax (%)" entry.
TypeTax(text) ==
    /\ UNCHANGED imgs
    /\ page = "invoice"
    /\ tax_ent' = text
    /\ last' = Idle
    /\ UNCHANGED <<active, trash, last_deleted, receipts, reports, page,
                   inv_ent, editing_base, items, tree, disc_ent>>

\* The user types `text` in the "Discount" entry.
TypeDiscount(text) ==
    /\ UNCHANGED imgs
    /\ page = "invoice"
    /\ disc_ent' = text
    /\ last' = Idle
    /\ UNCHANGED <<active, trash, last_deleted, receipts, reports, page,
                   inv_ent, editing_base, items, tree, tax_ent>>

\* An Add Item that puts the new item first.
OpenAddItemFirst(it) ==
    /\ UNCHANGED imgs
    /\ page = "invoice"
    /\ items' = <<it>> \o items
    /\ tree' = Append(tree, Row(it))
    /\ last' = Ran("add", "none", <<>>, <<>>, 0, <<>>)
    /\ UNCHANGED <<active, trash, last_deleted, receipts, reports, page,
                   inv_ent, editing_base, tax_ent, disc_ent>>

\* open_add_item with the dialog's result `it`
OpenAddItem(it) ==
    /\ UNCHANGED imgs
    /\ page = "invoice"
    /\ items' = Append(items, it)
    /\ tree' = Append(tree, Row(it))
    /\ last' = Ran("add", "none", <<>>, <<>>, 0, <<>>)
    /\ UNCHANGED <<active, trash, last_deleted, receipts, reports, page,
                   inv_ent, editing_base, tax_ent, disc_ent>>

\* remove_selected_item deleting the last row of the table
RemoveSelectedItemLastRow(idx) ==
    /\ UNCHANGED imgs
    /\ page = "invoice"
    /\ idx < Len(tree)
    /\ tree' = Pop(tree, Len(tree) - 1)
    /\ items' = IF idx < Len(items) THEN Pop(items, idx) ELSE items
    /\ last' = Ran("remove", "none", <<>>, <<>>, idx, <<>>)
    /\ UNCHANGED <<active, trash, last_deleted, receipts, reports, page,
                   inv_ent, editing_base, tax_ent, disc_ent>>

\* remove_selected_item / on_tree_click on row idx (0-based) of the table
RemoveSelectedItem(idx) ==
    /\ UNCHANGED imgs
    /\ page = "invoice"
    /\ idx < Len(tree)
    /\ tree' = Pop(tree, idx)
    /\ items' = IF idx < Len(items) THEN Pop(items, idx) ELSE items
    /\ last' = Ran("remove", "none", <<>>, <<>>, idx, <<>>)
    /\ UNCHANGED <<active, trash, last_deleted, receipts, reports, page,
                   inv_ent, editing_base, tax_ent, disc_ent>>

\* choose_logo with file `fn` chosen; `opened` tells whether Image.open and
\* pil_trim_whitespace worked
ChooseLogo(fn, opened) ==
    /\ page = "invoice"
    /\ logo_path' = fn
    /\ logo_in_memory' = IF opened THEN "logo" ELSE "None"
    /\ last' = Idle
    /\ UNCHANGED <<active, trash, last_deleted, receipts, reports, page, inv_ent,
                   editing_base, items, tree, tax_ent, disc_ent, signature_image>>

\* clear_logo
ClearLogo ==
    /\ page = "invoice"
    /\ logo_path' = "None"
    /\ logo_in_memory' = "None"
    /\ last' = Idle
    /\ UNCHANGED <<active, trash, last_deleted, receipts, reports, page, inv_ent,
                   editing_base, items, tree, tax_ent, disc_ent, signature_image>>

\* open_signature with a signature drawn and saved in the dialog
OpenSignature ==
    /\ page = "invoice"
    /\ signature_image' = "signature"
    /\ last' = Idle
    /\ UNCHANGED <<active, trash, last_deleted, receipts, reports, page, inv_ent,
                   editing_base, items, tree, tax_ent, disc_ent, logo_path, logo_in_memory>>

\* clear_signature
ClearSignature ==
    /\ page = "invoice"
    /\ signature_image' = "None"
    /\ last' = Idle
    /\ UNCHANGED <<active, trash, last_deleted, receipts, reports, page, inv_ent,
                   editing_base, items, tree, tax_ent, disc_ent, logo_path, logo_in_memory>>

-----------------------------------------------------------------------------
(* The record store under every handler                                    *)

\* Bound of the model: a run holds at most MaxBudget runs of the handlers
\* that write to the folders (save, delete, undo), a run in which a file
\* operation fails counting three times.
MaxBudget == 5

\* The texts typed in the "Invoice #" entry.
TypedNumbers == {<<"1">>}

\* The texts typed in the "Tax (%)" entry.
TypedTaxes == {"6.0"}

\* 1 when one of the file operations of the handler that just ran failed.
IoFaults(io) ==
    IF \E i \in 1..Len(io) : io[i] \notin {"ok", "moved", "skip"} THEN 1 ELSE 0

\* The handler that just ran is counted, and the run stays within MaxBudget.
Counted ==
    /\ used' = used + 1 + 2 * IoFaults(last'.io)
    /\ used' <= MaxBudget

\* The outcomes a file operation can still have within MaxBudget.
Within(outcomes, good) == IF used + 3 <= MaxBudget THEN outcomes ELSE {good}

Init ==
    /\ active = NoFiles
    /\ trash = NoFiles
    /\ last_deleted = <<>>
    /\ receipts = ListReceipts(NoFiles)
    /\ reports = ListReports(NoFiles)
    /\ page = "home"
    /\ inv_ent = NextInvoiceNumber(NoFiles)
    /\ editing_base = <<>>
    /\ items = <<>>
    /\ tree = <<>>
    /\ tax_ent = "0.00"
    /\ disc_ent = "0.00"
    /\ logo_path = "None"
    /\ logo_in_memory = "None"
    /\ signature_image = "None"
    /\ last = Idle
    /\ used = 0

Next ==
    \/ \E d \in Within(DocOutcomes, "ok"), j \in Within(JsonOutcomes, "ok") :
          /\ used < MaxBudget
          /\ d # "ok" => j = "ok"
          /\ SaveInvoice(d, j)
          /\ Counted
    \/ \E n \in DOMAIN active :
          \E o1 \in Within(MoveOutcomes, "moved"), o2 \in Within(MoveOutcomes, "moved") :
             /\ used < MaxBudget
             /\ DeleteSelectedReceipt(n, o1, o2)
             /\ Counted
    \/ \E o1 \in Within(MoveOutcomes, "moved"), o2 \in Within(MoveOutcomes, "moved") :
          /\ used < MaxBudget
          /\ UndoDelete(o1, o2)
          /\ Counted
    \/ \E n \in DOMAIN active : EditSelectedReceipt(n) /\ UNCHANGED used
    \/ NewInvoice /\ UNCHANGED used
    \/ \E p \in {"invoice", "receipts", "reports"} : ShowPage(p) /\ UNCHANGED used
    \/ \E t \in TypedNumbers : TypeInvoiceNumber(t) /\ UNCHANGED used
    \/ \E t \in TypedTaxes : TypeTax(t) /\ UNCHANGED used

Spec == Init /\ [][Next]_vars


-----------------------------------------------------------------------------
(* The record store with a trash folder that other programs can change     *)

\* A file of the trash folder is removed by something other than the
\* program; restore's `if not src or not os.path.exists(src)` is the
\* program's provision for it.
TrashFileRemoved(n) ==
    /\ UNCHANGED imgs
    /\ Exists(trash, n)
    /\ trash' = RemoveFile(trash, n)
    /\ last' = Ran("outside", "none", <<>>, <<>>, 0, <<>>)
    /\ UNCHANGED <<active, last_deleted, receipts, reports, page, inv_ent,
                   editing_base, items, tree, tax_ent, disc_ent, used>>

NextEnv ==
    \/ Next
    \/ \E n \in DOMAIN trash : TrashFileRemoved(n)

SpecEnv == Init /\ [][NextEnv]_vars

-----------------------------------------------------------------------------
(* Invoice numbering over the folders a session can start with             *)

\* The files an invoices folder can hold when the program starts.
StartFiles ==
    { <<"3">> \o JsonExt, <<"0", "7">> \o JsonExt,
      <<"i", "n", "v", "-", "1", "2">> \o JsonExt, <<"x">> \o JsonExt,
      <<"1", "_", "1">> \o JsonExt, <<"2">> \o JsonExt, <<"9">> \o PdfExt }

\* What an earlier session left in a file of that name.
StartContent(n) ==
    LET inv == [NoData EXCEPT !.invoice_number = Stem(n)]
    IN  IF Ext(n) = JsonExt THEN JsonOf(inv) ELSE PdfOf(inv)

\* SidebarApp.__init__ on an invoices folder that holds some of StartFiles
InitSeq ==
    /\ active \in {[n \in S |-> StartContent(n)] : S \in SUBSET StartFiles}
    /\ trash = NoFiles
    /\ last_deleted = <<>>
    /\ receipts = ListReceipts(active)
    /\ reports = ListReports(active)
    /\ page = "home"
    /\ inv_ent = NextInvoiceNumber(active)
    /\ editing_base = <<>>
    /\ items = <<>>
    /\ tree = <<>>
    /\ tax_ent = "0.00"
    /\ disc_ent = "0.00"
    /\ logo_path = "None"
    /\ logo_in_memory = "None"
    /\ signature_image = "None"
    /\ last = Idle
    /\ used = 0

\* The handlers that compute the next number, and the page changes.
NextSeq ==
    \/ used < MaxBudget /\ SaveInvoice("ok", "ok") /\ Counted
    \/ NewInvoice /\ UNCHANGED used
    \/ \E p \in {"invoice", "receipts", "reports"} : ShowPage(p) /\ UNCHANGED used

SpecSeq == InitSeq /\ [][NextSeq]_vars

-----------------------------------------------------------------------------
(* The invoice form and the reports table                                  *)

\* Bounds of the model: the form holds at most MaxItems items, and a run
\* holds at most MaxSaves saves.
MaxItems == 2
MaxSaves == 2

\* The results of the Add Item dialog: 0.4 x 0.01 and 2.0 x 10.00.  No
\* product of the model falls on a rounding tie.
DialogItems == {Item("w", 4, 1), Item("Widget", 20, 1000)}

\* The texts typed in the "Discount" entry.
TypedDiscounts == {"1.00"}

NextTotals ==
    \/ \E it \in DialogItems :
          Len(items) < MaxItems /\ OpenAddItem(it) /\ UNCHANGED used
    \/ \E idx \in 0..(MaxItems - 1) : RemoveSelectedItem(idx) /\ UNCHANGED used
    \/ \E t \in TypedTaxes : TypeTax(t) /\ UNCHANGED used
    \/ \E t \in TypedDiscounts : TypeDiscount(t) /\ UNCHANGED used
    \/ used < MaxSaves /\ SaveInvoice("ok", "ok") /\ used' = used + 1
    \/ NewInvoice /\ UNCHANGED used
    \/ \E p \in {"invoice", "receipts", "reports"} : ShowPage(p) /\ UNCHANGED used

SpecTotals == Init /\ [][NextTotals]_vars


-----------------------------------------------------------------------------
(* Properties of delete and undo                                           *)

\* The paths the undo slot names.
SlotFiles == {last_deleted[i] : i \in DOMAIN last_deleted} \ {<<>>}

\* The trash files the undo slot does not name.
Orphans == DOMAIN trash \ SlotFiles

\* C1: a delete that moved K.pdf and K.json to the trash folder, followed at
\* once by an undo that moved both back, leaves K.pdf and K.json in the
\* invoices folder and the receipts listing as it was before the delete,
\* whatever the trash folder held before.
C1_UndoRestoresOriginalNames ==
    [][ ( /\ last.op = "delete"
          /\ last.io = <<"moved", "moved">>
          /\ last'.op = "undo"
          /\ last'.io = <<"moved", "moved">> )
        => /\ Exists(active', last.name)
           /\ Exists(active', Stem(last.name) \o JsonExt)
           /\ ListReceipts(active') = last.pre ]_vars

\* C5: a trash file the slot does not name stays in the trash folder as it
\* is and stays out of the slot; the slot a delete sets names no file the
\* trash folder held before that delete; and an undo takes out of the trash
\* folder only files the slot named.
C5_OnlyLastDeleteUndoable ==
    [][ /\ \A f \in Orphans :
             /\ Exists(trash', f)
             /\ trash'[f] = trash[f]
             /\ f \notin SlotFiles'
        /\ (last'.op = "delete" => SlotFiles' \cap DOMAIN trash = {})
        /\ (last'.op = "undo" => (DOMAIN trash \ DOMAIN trash') \subseteq SlotFiles)
      ]_vars

\* An undo restored the files of the second of two deletes, and the two
\* files of the first are still in the trash folder, outside the slot.
C5_Witness ==
    /\ last.op = "undo"
    /\ last.result = "restored"
    /\ last.count = 2
    /\ last_deleted = <<>>
    /\ Cardinality(DOMAIN trash) = 2

\* C6: after a delete the slot names exactly the files that delete created
\* in the trash folder, and names no metadata file when the record had none.
C6_HandleNamesWhatWasMoved ==
    [][ last'.op = "delete"
        => /\ SlotFiles' = DOMAIN trash' \ DOMAIN trash
           /\ ( ~Exists(active, Stem(last'.name) \o JsonExt)
                => (last_deleted' = <<>> \/ last_deleted'[2] = <<>>) ) ]_vars

\* p is the name a move of src into dir must take: src when dir has no such
\* file, else the <stem><infix><N><ext> of the smallest N >= 1 that dir does
\* not have.
Named(dir, src, p, infix) ==
    IF src \notin DOMAIN dir THEN p = src
    ELSE \E N \in 1..(Cardinality(DOMAIN dir) + 1) :
            /\ p = Suffixed(src, infix, N)
            /\ p \notin DOMAIN dir
            /\ \A j \in 1..(N - 1) : Suffixed(src, infix, j) \in DOMAIN dir

\* C7: a delete leaves every file of the trash folder as it was and an undo
\* every file of the invoices folder; a file either creates is named after
\* its source, with suffix _<N> in the trash folder and _restored_<N> in the
\* invoices folder, N the smallest number from 1 that makes a new name, when
\* the source's own name is taken.
C7_CollisionsNeverOverwrite ==
    [][ /\ ( last'.op = "delete"
             => /\ \A f \in DOMAIN trash : Exists(trash', f) /\ trash'[f] = trash[f]
                /\ \A p \in (DOMAIN trash' \ DOMAIN trash) \cup SlotFiles' :
                      \/ Named(trash, last'.name, p, TrashInfix)
                      \/ Named(trash, Stem(last'.name) \o JsonExt, p, TrashInfix) )
        /\ ( last'.op = "undo"
             => /\ \A f \in DOMAIN active : Exists(active', f) /\ active'[f] = active[f]
                /\ \A p \in DOMAIN active' \ DOMAIN active :
                      \E src \in SlotFiles : Named(active, src, p, RestoredInfix) )
      ]_vars

\* An undo restored a document next to a document of the same name: both
\* are in the invoices folder, the restored one as <stem>_restored_1.pdf.
C7_Witness ==
    /\ last.op = "undo"
    /\ last.result = "restored"
    /\ \E f \in DOMAIN active :
          /\ Ext(f) = PdfExt
          /\ Exists(active, Suffixed(f, RestoredInfix, 1))

\* C8: an undo with a handle to restore reports as many files as it moved
\* out of the trash folder, and reports failure exactly when it moved none.
C8_UndoCountsWhatItMoved ==
    [][ (last'.op = "undo" /\ last'.result # "nothing")
        => LET moved == DOMAIN trash \ DOMAIN trash'
           IN  /\ moved \subseteq DOMAIN active'
               /\ last'.count = Cardinality(moved)
               /\ (last'.result = "failed" <=> moved = {}) ]_vars

-----------------------------------------------------------------------------
(* Properties of save                                                      *)

\* C2: a save whose document write fails leaves every file but the document
\* as it was, the metadata file included, and leaves the undo slot, the
\* trash folder, the two listings and the form's editing state as they
\* were; and a save changes the metadata file only with the new document in
\* place.
C2_DocumentFailureStopsSave ==
    [][ /\ ( (last'.op = "save" /\ last'.result = "pdf_error")
             => /\ \A f \in (DOMAIN active \cup DOMAIN active') \ {last'.name \o PdfExt} :
                      /\ Exists(active, f)
                      /\ Exists(active', f)
                      /\ active'[f] = active[f]
                /\ UNCHANGED <<trash, last_deleted, receipts, reports,
                               editing_base, inv_ent, items, tree>> )
        /\ ( last'.op = "save"
             => LET json_fn == last'.name \o JsonExt
                    pdf_fn == last'.name \o PdfExt
                IN  ( /\ Exists(active', json_fn)
                      /\ (~Exists(active, json_fn) \/ active'[json_fn] # active[json_fn]) )
                    => /\ Exists(active', pdf_fn)
                       /\ active'[pdf_fn] = PdfOf(BuildInvoiceData) )
      ]_vars

\* A save over an existing record failed at the document: the document is
\* a partial file and the metadata file of the record is still a record.
C2_Witness ==
    /\ last.op = "save"
    /\ last.result = "pdf_error"
    /\ Exists(active, last.name \o PdfExt)
    /\ active[last.name \o PdfExt] = Partial
    /\ Exists(active, last.name \o JsonExt)
    /\ active[last.name \o JsonExt].kind = "json"

\* C3: a save whose metadata write fails after its document was written
\* ends with the warning, keeps the new document, removes no file, changes
\* no file but the record's two, and leaves the trash folder as it was; and
\* a save that reports success has written the metadata.
C3_MetadataFailureKeepsDocument ==
    [][ /\ ( (last'.op = "save" /\ Len(last'.io) = 2 /\ last'.io[2] # "ok")
             => /\ last'.result = "json_warning"
                /\ Exists(active', last'.name \o PdfExt)
                /\ active'[last'.name \o PdfExt] = PdfOf(BuildInvoiceData)
                /\ \A f \in DOMAIN active : Exists(active', f)
                /\ \A f \in DOMAIN active \ {last'.name \o PdfExt, last'.name \o JsonExt} :
                      active'[f] = active[f]
                /\ trash' = trash )
        /\ ( (last'.op = "save" /\ last'.result = "saved")
             => /\ Exists(active', last'.name \o JsonExt)
                /\ active'[last'.name \o JsonExt] = JsonOf(BuildInvoiceData) )
      ]_vars

\* A save over an existing record failed at the metadata: the new document
\* is there and the metadata file is a partial file.
C3_Witness ==
    /\ last.op = "save"
    /\ last.result = "json_warning"
    /\ \E i \in DOMAIN last.pre : last.pre[i] = last.name \o PdfExt
    /\ active[last.name \o PdfExt].kind = "pdf"
    /\ Exists(active, last.name \o JsonExt)
    /\ active[last.name \o JsonExt] = Partial

\* C4: a successful save to key K leaves in K.pdf and K.json the invoice
\* just saved, creates no file but these two, and the receipts listing has
\* exactly one entry of key K.
C4_SaveOverwritesBoth ==
    [][ (last'.op = "save" /\ last'.result = "saved")
        => LET pdf_fn == last'.name \o PdfExt
               json_fn == last'.name \o JsonExt
           IN  /\ DOMAIN active' = DOMAIN active \cup {pdf_fn, json_fn}
               /\ active'[pdf_fn] = PdfOf(BuildInvoiceData)
               /\ active'[json_fn] = JsonOf(BuildInvoiceData)
               /\ Cardinality({i \in DOMAIN receipts' :
                                 Stem(receipts'[i]) = last'.name}) = 1
               /\ Cardinality({i \in DOMAIN ListReceipts(active') :
                                 Stem(ListReceipts(active')[i]) = last'.name}) = 1
      ]_vars

\* The second of two successful saves, to the key of the first: the record
\* holds the tax rate typed before the second save.
C4_Witness ==
    /\ last.op = "save"
    /\ last.result = "saved"
    /\ used = 2
    /\ \E i \in DOMAIN last.pre : last.pre[i] = last.name \o PdfExt
    /\ Cardinality(DOMAIN active) = 2
    /\ active[last.name \o JsonExt].data.tax_rate = 600
    /\ active[last.name \o PdfExt].data.tax_rate = 600

-----------------------------------------------------------------------------
(* Properties of the invoice numbering                                     *)

\* The keys of the records of a folder.
RecordKeys(dir) == {Stem(f) : f \in {g \in DOMAIN dir : EndsWith(g, JsonExt)}}

\* The number a key stands for: the key read as a number when it is all
\* digits, else its digit characters put together.
KeyNumber(k) ==
    IF \A i \in DOMAIN k : IsDigitChar(k[i])
    THEN IntOf(k)
    ELSE IntOf(SelectSeq(k, IsDigitChar))

ExampleKeys == {<<"3">>, <<"0", "7">>, <<"i", "n", "v", "-", "1", "2">>, <<"x">>}

\* C9: the number suggested is one more than the largest number a record
\* key stands for, keys without a digit left out, and 1 when no key has a
\* digit; keys 3, 07, inv-12 and x give 13 and no key gives 1.
C9_NextNumberIsMaxPlusOne ==
    LET keys == {k \in RecordKeys(active) : \E i \in DOMAIN k : IsDigitChar(k[i])}
        nums == {KeyNumber(k) : k \in keys}
    IN  /\ \E m \in nums \cup {0} :
              /\ \A y \in nums : y <= m
              /\ inv_ent = StrOf(m + 1)
        /\ (RecordKeys(active) = ExampleKeys => inv_ent = <<"1", "3">>)
        /\ (RecordKeys(active) = {} => inv_ent = <<"1">>)

\* New Invoice on a folder with the records 3, 07, inv-12 and x: the
\* "Invoice #" entry shows 13.
C9_Witness ==
    /\ RecordKeys(active) = ExampleKeys
    /\ page = "invoice"
    /\ editing_base = <<>>
    /\ inv_ent = <<"1", "3">>

-----------------------------------------------------------------------------
(* Properties of the reports table                                         *)

\* The amount of a line: quantity x unit price rounded to cents, and 0 for
\* an item without a number for its quantity or its unit price.
LineAmount(it) ==
    IF {"qty", "unit_price"} \subseteq DOMAIN it
    THEN RoundDiv(it.qty * it.unit_price, 10) ELSE 0

RECURSIVE RuleSubtotal(_)
\* The sum of the line amounts.
RuleSubtotal(its) ==
    IF Len(its) = 0 THEN 0
    ELSE LineAmount(Head(its)) + RuleSubtotal(Tail(its))

\* The subtotal x tax rate / 100, rounded to cents.
RuleTax(its, tax_rate) == RoundDiv(RuleSubtotal(its) * tax_rate, 10000)

\* C10: every row of the reports table shows the subtotal, the tax amount
\* and the total that the rounding rule of the document gives for the
\* record's items, tax rate and discount.
C10_ReportRowsFollowRoundingRule ==
    \A i \in DOMAIN reports :
       LET row == reports[i]
       IN  (Exists(active, row.jf) /\ active[row.jf].kind = "json")
           => LET data == active[row.jf].data
              IN  /\ row.subtotal = RuleSubtotal(data.items)
                  /\ row.tax_amt = RuleTax(data.items, data.tax_rate)
                  /\ row.total = RuleSubtotal(data.items)
                                 + RuleTax(data.items, data.tax_rate) - data.discount


-----------------------------------------------------------------------------
(* The listings over the folders a session can start with                  *)

\* The metadata files an invoices folder can hold when the program starts.
StartRecords == {<<"1">> \o JsonExt, <<"2">> \o JsonExt, <<"3">> \o JsonExt}

\* What such a file can hold: a record, a file that is no JSON, JSON that
\* is no object.
StartKinds(n) ==
    {JsonOf([NoData EXCEPT !.invoice_number = Stem(n)]), Partial, NonObject}

\* The invoices folders made of some of StartRecords, with or without the
\* document 1.pdf.
StartFolders ==
    UNION { [S \cup D -> UNION {StartKinds(n) : n \in StartRecords}
                         \cup {PdfOf([NoData EXCEPT !.invoice_number = <<"1">>])}]
            : S \in SUBSET StartRecords, D \in SUBSET {<<"1">> \o PdfExt} }

\* SidebarApp.__init__ on such a folder
InitStart ==
    /\ active \in { f \in StartFolders :
                      \A n \in DOMAIN f :
                         IF n \in StartRecords THEN f[n] \in StartKinds(n)
                         ELSE f[n].kind = "pdf" }
    /\ trash = NoFiles
    /\ last_deleted = <<>>
    /\ receipts = ListReceipts(active)
    /\ reports = ListReports(active)
    /\ page = "home"
    /\ inv_ent = NextInvoiceNumber(active)
    /\ editing_base = <<>>
    /\ items = <<>>
    /\ tree = <<>>
    /\ tax_ent = "0.00"
    /\ disc_ent = "0.00"
    /\ logo_path = "None"
    /\ logo_in_memory = "None"
    /\ signature_image = "None"
    /\ last = Idle
    /\ used = 0

\* The page changes, New Invoice and Edit on what the folder holds.
NextStart ==
    \/ \E p \in {"invoice", "receipts", "reports"} : ShowPage(p) /\ UNCHANGED used
    \/ NewInvoice /\ UNCHANGED used
    \/ \E n \in DOMAIN active : EditSelectedReceipt(n) /\ UNCHANGED used

SpecStart == InitStart /\ [][NextStart]_vars

\* C11: the reports table has one row for every metadata file of the
\* invoices folder that holds a record, whatever the other metadata files
\* hold.
C11_ReportsSkipOnlyBadFiles ==
    LET good == {f \in DOMAIN active :
                   EndsWith(Lower(f), JsonExt) /\ active[f].kind = "json"}
    IN  /\ {reports[i].jf : i \in DOMAIN reports} = good
        /\ Len(reports) = Cardinality(good)


-----------------------------------------------------------------------------
(* make_invoice over the invoices it can be given                          *)

\* The items of an invoice dict: 2.0 x 10.00, 0.4 x 0.01, an item whose qty
\* is no number and an item whose unit_price is no number.
InvoiceItems ==
    { Item("Widget", 20, 1000), Item("w", 4, 1),
      [desc |-> "q", unit_price |-> 1000], [desc |-> "u", qty |-> 20] }

\* The item lists of at most MaxItems items.
ItemLists == UNION {[1..n -> InvoiceItems] : n \in 0..MaxItems}

\* The invoice form holding any of these item lists, a tax rate of 0 or 6
\* and a discount of 0 or 1.00.
InitDoc ==
    /\ active = NoFiles
    /\ trash = NoFiles
    /\ last_deleted = <<>>
    /\ receipts = ListReceipts(NoFiles)
    /\ reports = ListReports(NoFiles)
    /\ page = "invoice"
    /\ inv_ent = NextInvoiceNumber(NoFiles)
    /\ editing_base = <<>>
    /\ items \in ItemLists
    /\ tree = Rows(items)
    /\ tax_ent \in {"0.00"} \cup TypedTaxes
    /\ disc_ent \in {"0.00"} \cup TypedDiscounts
    /\ logo_path = "None"
    /\ logo_in_memory = "None"
    /\ signature_image = "None"
    /\ last = Idle
    /\ used = 0

\* Save Invoice (make_invoice on the form's invoice) and the page changes.
NextDoc ==
    \/ used < MaxSaves /\ SaveInvoice("ok", "ok") /\ used' = used + 1
    \/ \E p \in {"invoice", "receipts", "reports"} : ShowPage(p) /\ UNCHANGED used

SpecDoc == InitDoc /\ [][NextDoc]_vars

\* C12: the totals block of every document is the subtotal, tax amount and
\* total that the rule gives for the document's items, tax rate and
\* discount: line amounts rounded to cents (0 for an item whose quantity or
\* unit price is no number), tax rounded to cents, total = subtotal + tax -
\* discount; 2 x 10.00 at 6% with discount 1.00 gives 20.00, 1.20, 20.20.
C12_DocumentTotalsFollowRule ==
    \A f \in DOMAIN active :
       active[f].kind = "pdf"
       => LET d == active[f].data
              t == active[f].totals
          IN  /\ t.subtotal = RuleSubtotal(d.items)
              /\ t.tax = RuleTax(d.items, d.tax_rate)
              /\ t.total = t.subtotal + t.tax - d.discount
              /\ ( (d.items = <<Item("Widget", 20, 1000)>>
                    /\ d.tax_rate = 600 /\ d.discount = 100)
                   => t = [subtotal |-> 2000, tax |-> 120, total |-> 2020] )

\* A saved document of two lines, 0.4 x 0.01 and an item whose quantity is
\* no number, at 6% with discount 1.00: its total is -1.00.
C12_Witness ==
    /\ \E f \in DOMAIN active :
          /\ active[f].kind = "pdf"
          /\ active[f].data.items = <<Item("w", 4, 1), [desc |-> "q", unit_price |-> 1000]>>
          /\ active[f].data.tax_rate = 600
          /\ active[f].totals.total = -100
    /\ last.op = "save"
    /\ last.result = "saved"


-----------------------------------------------------------------------------
(* The items of the form, from entry to the files and back                 *)

\* Bound of the model: the invoices folder holds at most MaxRecords records.
MaxRecords == 1

\* Add Item, the removal of a row, Save Invoice, Edit Selected and the
\* Invoice and Receipts pages.
NextItems ==
    \/ \E it \in DialogItems :
          Len(items) < MaxItems /\ OpenAddItem(it) /\ UNCHANGED used
    \/ \E idx \in 0..(MaxItems - 1) : RemoveSelectedItem(idx) /\ UNCHANGED used
    \/ /\ \/ Exists(active, SaveBase(editing_base, inv_ent) \o JsonExt)
          \/ Cardinality({f \in DOMAIN active : Ext(f) = JsonExt}) < MaxRecords
       /\ SaveInvoice("ok", "ok")
       /\ UNCHANGED used
    \/ \E n \in DOMAIN active : EditSelectedReceipt(n) /\ UNCHANGED used
    \/ \E p \in {"invoice", "receipts"} : ShowPage(p) /\ UNCHANGED used

SpecItems == Init /\ [][NextItems]_vars

\* C13: Add Item puts the new item after the items of the form, which keep
\* their order; the removal of a row takes out the item of that row and
\* leaves the others in their order; a save writes the items of the form,
\* in their order, to the document and to the metadata file; Edit loads the
\* items of the metadata file in their order.
C13_ItemOrderPreserved ==
    [][ /\ ( last'.op = "add"
             => /\ Len(items') = Len(items) + 1
                /\ \A i \in DOMAIN items : items'[i] = items[i] )
        /\ ( last'.op = "remove"
             => /\ Len(items') = Len(items) - 1
                /\ \A i \in DOMAIN items' :
                      items'[i] = IF i <= last'.count THEN items[i] ELSE items[i + 1] )
        /\ ( (last'.op = "save" /\ last'.result = "saved")
             => /\ active'[last'.name \o PdfExt].data.items = items
                /\ active'[last'.name \o JsonExt].data.items = items
                /\ items' = items )
        /\ ( (last'.op = "edit" /\ last'.result = "loaded")
             => LET saved == active[Stem(last'.name) \o JsonExt].data.items
                IN  /\ Len(items') = Len(saved)
                    /\ \A i \in DOMAIN saved :
                          /\ items'[i].desc = saved[i].desc
                          /\ items'[i].qty = saved[i].qty
                          /\ items'[i].unit_price = saved[i].unit_price )
      ]_vars

\* Edit has loaded a record of two different items: form, document and
\* metadata file hold the two in the same order.
C13_Witness ==
    /\ last.op = "edit"
    /\ last.result = "loaded"
    /\ items = <<Item("w", 4, 1), Item("Widget", 20, 1000)>>
    /\ active[Stem(last.name) \o JsonExt].data.items = items
    /\ active[last.name].data.items = items


-----------------------------------------------------------------------------
(* The logo and the signature, from the form to the files and back         *)

\* The files chosen in the logo dialog.
LogoFiles == {"logo.png"}

\* The logo and signature handlers, Save Invoice, Edit Selected, New
\* Invoice and the Invoice and Receipts pages.
NextImages ==
    \/ \E fn \in LogoFiles, opened \in BOOLEAN : ChooseLogo(fn, opened) /\ UNCHANGED used
    \/ ClearLogo /\ UNCHANGED used
    \/ OpenSignature /\ UNCHANGED used
    \/ ClearSignature /\ UNCHANGED used
    \/ /\ \/ Exists(active, SaveBase(editing_base, inv_ent) \o JsonExt)
          \/ Cardinality({f \in DOMAIN active : Ext(f) = JsonExt}) < MaxRecords
       /\ SaveInvoice("ok", "ok")
       /\ UNCHANGED used
    \/ \E n \in DOMAIN active : EditSelectedReceipt(n) /\ UNCHANGED used
    \/ NewInvoice /\ UNCHANGED used
    \/ \E p \in {"invoice", "receipts"} : ShowPage(p) /\ UNCHANGED used

SpecImages == Init /\ [][NextImages]_vars

\* C14: no metadata file of the invoices folder has a logo_image or a
\* signature_image field, and a save writes every other field of the
\* invoice it built, logo_path included, to the metadata file as it is.
C14_NoImageDataInMetadata ==
    [][ /\ \A f \in DOMAIN active' :
             active'[f].kind = "json"
             => /\ "logo_image" \notin DOMAIN active'[f].data
                /\ "signature_image" \notin DOMAIN active'[f].data
        /\ ( (last'.op = "save" /\ last'.result = "saved")
             => LET inv == BuildInvoiceData
                    d == active'[last'.name \o JsonExt].data
                IN  \A k \in DOMAIN inv \ {"logo_image", "signature_image"} :
                       k \in DOMAIN d /\ d[k] = inv[k] )
      ]_vars

\* A save with a logo and a signature in memory: the document has both, the
\* metadata file has the path of the logo.
C14_Witness ==
    /\ last.op = "save"
    /\ last.result = "saved"
    /\ logo_in_memory = "logo"
    /\ signature_image = "signature"
    /\ active[last.name \o PdfExt].data.logo_image = "logo"
    /\ active[last.name \o PdfExt].data.signature_image = "signature"
    /\ active[last.name \o JsonExt].data.logo_path = "logo.png"


-----------------------------------------------------------------------------
(* Saving while a number entry holds text that is not a number              *)

\* What the user types into the tax and discount entries.
EntryTexts == {"abc", "", "6.0", "1.00"}

\* Typing into the two entries, adding items and saving.
NextEntries ==
    \/ \E t \in EntryTexts : TypeTax(t) /\ UNCHANGED used
    \/ \E t \in EntryTexts : TypeDiscount(t) /\ UNCHANGED used
    \/ \E it \in DialogItems : Len(items) < MaxItems /\ OpenAddItem(it) /\ UNCHANGED used
    \/ /\ \/ Exists(active, SaveBase(editing_base, inv_ent) \o JsonExt)
          \/ Cardinality({f \in DOMAIN active : Ext(f) = JsonExt}) < MaxRecords
       /\ SaveInvoice("ok", "ok")
       /\ UNCHANGED used
    \/ \E p \in {"invoice", "receipts"} : ShowPage(p) /\ UNCHANGED used

SpecEntries == Init /\ [][NextEntries]_vars

\* C15: a save while the tax or the discount entry holds text that is not
\* a number ends as a save: the document and the metadata file are written
\* and the value of that entry in them is zero.
C15_UnparseableEntrySavesAsZero ==
    [][ (last'.op = "save" /\ (~FloatOf(tax_ent).ok \/ ~FloatOf(disc_ent).ok))
        => /\ last'.result = "saved"
           /\ Exists(active', last'.name \o PdfExt)
           /\ Exists(active', last'.name \o JsonExt)
           /\ ~FloatOf(tax_ent).ok
              => active'[last'.name \o JsonExt].data.tax_rate = 0
           /\ ~FloatOf(disc_ent).ok
              => active'[last'.name \o JsonExt].data.discount = 0
      ]_vars


-----------------------------------------------------------------------------
(* Deletes and undos in which a move fails                                  *)

\* C16: a delete or an undo in which a move of a file fails leaves the
\* invoices folder, the trash folder and the undo slot as they were.
C16_FailedMoveLeavesStateIntact ==
    [][ ( /\ last'.op \in {"delete", "undo"}
          /\ \E i \in 1..Len(last'.io) : last'.io[i] = "failed" )
        => /\ active' = active
           /\ trash' = trash
           /\ last_deleted' = last_deleted
      ]_vars


-----------------------------------------------------------------------------
(* The name a save gives its files                                          *)

\* C17: a save writes <stem>.pdf and <stem>.json where <stem> is the
\* invoice number without the characters that are not letters, digits, "-"
\* or "_" (a name made of the date when nothing is left): the stem has
\* only such characters and the invoice number stored in <stem>.json
\* filters to it.
C17_StemIsFilteredInvoiceNumber ==
    [][ (last'.op = "save" /\ last'.result = "saved")
        => LET stem == last'.name
               stored == active'[stem \o JsonExt].data.invoice_number
           IN  /\ Exists(active', stem \o PdfExt)
               /\ \A i \in 1..Len(stem) : SafeChar(stem[i])
               /\ SaveBase(<<>>, stored) = stem
      ]_vars


-----------------------------------------------------------------------------
(* The receipts list over folders with other files                         *)

\* The files of the invoices folder at start: documents with the extension
\* in lower and in upper case, a metadata file, and a file whose name has
\* the document extension inside it.
ListFiles ==
    { <<"9">> \o PdfExt, <<"1", ".", "P", "D", "F">>, <<"2">> \o PdfExt,
      <<"2">> \o JsonExt, <<"1">> \o PdfExt \o <<".", "t", "x", "t">>,
      <<"1", "0">> \o PdfExt }

InitList ==
    /\ active \in {[n \in S |-> StartContent(n)] : S \in SUBSET ListFiles}
    /\ trash = NoFiles
    /\ last_deleted = <<>>
    /\ receipts = ListReceipts(active)
    /\ reports = ListReports(active)
    /\ page = "home"
    /\ inv_ent = NextInvoiceNumber(active)
    /\ editing_base = <<>>
    /\ items = <<>>
    /\ tree = <<>>
    /\ tax_ent = "0.00"
    /\ disc_ent = "0.00"
    /\ logo_path = "None"
    /\ logo_in_memory = "None"
    /\ signature_image = "None"
    /\ last = Idle
    /\ used = 0

\* The handlers that fill the receipts list, with moves that succeed.
NextList ==
    \/ \E n \in DOMAIN active : DeleteSelectedReceipt(n, "moved", "moved") /\ UNCHANGED used
    \/ UndoDelete("moved", "moved") /\ UNCHANGED used
    \/ /\ used < MaxSaves
       /\ SaveInvoice("ok", "ok")
       /\ used' = used + 1
    \/ \E p \in {"invoice", "receipts"} : ShowPage(p) /\ UNCHANGED used

SpecList == InitList /\ [][NextList]_vars

\* C18: the receipts list holds the files of the invoices folder whose
\* extension is the document extension in any case, each once, in
\* descending order of name; no other file and not the trash folder.
C18_ReceiptsListIsTheDocuments ==
    /\ {receipts[i] : i \in 1..Len(receipts)}
         = {f \in DOMAIN active : Lower(Ext(f)) = PdfExt}
    /\ \A i, j \in 1..Len(receipts) : i < j => StrLess(receipts[j], receipts[i])
    /\ \A i \in 1..Len(receipts) : receipts[i] # TrashDir

\* After a delete the list still holds a document with the extension in
\* upper case above one in lower case, and the folder has files that are
\* not documents.
C18_Witness ==
    /\ last.op = "delete"
    /\ Len(receipts) >= 3
    /\ \E i, j \in 1..Len(receipts) :
          /\ i < j
          /\ Ext(receipts[i]) = PdfExt
          /\ Ext(receipts[j]) = <<".", "P", "D", "F">>
    /\ \E f \in DOMAIN active : Lower(Ext(f)) # PdfExt


-----------------------------------------------------------------------------
(* Fitting an image to the page: get_rl_image_from_pil                     *)
(* Lengths are exact fractions of a point, [n |-> numerator, d |->         *)
(* denominator] in lowest terms with d > 0; the code computes the same     *)
(* expressions in floating point.                                          *)

RECURSIVE Gcd(_, _)
Gcd(a, b) == IF b = 0 THEN a ELSE Gcd(b, a % b)

\* the fraction n/d in lowest terms (n >= 0, d > 0)
Rat(n, d) == LET g == Gcd(n, d) IN [n |-> n \div g, d |-> d \div g]

\* a * b, cancelling before multiplying
RatMul(a, b) ==
    LET g1 == Gcd(a.n, b.d)
        g2 == Gcd(b.n, a.d)
    IN  IF a.n = 0 \/ b.n = 0 THEN [n |-> 0, d |-> 1]
        ELSE Rat((a.n \div g1) * (b.n \div g2), (a.d \div g2) * (b.d \div g1))

\* a / b for b > 0
RatDiv(a, b) == RatMul(a, [n |-> b.d, d |-> b.n])

\* a > b, cancelling before cross-multiplying
RatGt(a, b) ==
    LET g == Gcd(a.d, b.d)
        h == IF a.n = 0 /\ b.n = 0 THEN 1 ELSE Gcd(a.n, b.n)
    IN  (a.n \div h) * (b.d \div g) > (b.n \div h) * (a.d \div g)

RatLeq(a, b) == ~RatGt(a, b)

\* reportlab.lib.units.mm in points: 72 / 25.4
mm == Rat(360, 127)

\* the width of reportlab.lib.pagesizes.A4 in millimetres
A4WidthMm == 210

\* the left and the right margin of the page in millimetres
MarginMm == 15

\* the resolution taken when the image has none that can be used
DefaultDpi == 72

\* An image is [w_px, h_px, dpi]; dpi = 0 stands for an image whose info
\* has no dpi, or one that is not a positive number.
Dpi(pil) == IF pil.dpi <= 0 THEN DefaultDpi ELSE pil.dpi

\* w_pts, h_pts: the size of the image at its resolution
WPts(pil) == Rat(pil.w_px * 72, Dpi(pil))
HPts(pil) == Rat(pil.h_px * 72, Dpi(pil))

\* ratio = h_pts / w_pts
Ratio(pil) == RatDiv(HPts(pil), WPts(pil))

\* page_available = A4[0] - (15*mm + 15*mm)
PageAvailable == RatMul(Rat(A4WidthMm - (MarginMm + MarginMm), 1), mm)

\* the width step leaving the height as it was
ClampWidthKeepHeight(t, max_w_pts, ratio) ==
    IF RatGt(t.w, max_w_pts) THEN [w |-> max_w_pts, h |-> t.h] ELSE t

\* if target_w > max_w_pts: ...
ClampWidth(t, max_w_pts, ratio) ==
    IF RatGt(t.w, max_w_pts)
    THEN [w |-> max_w_pts, h |-> RatMul(max_w_pts, ratio)]
    ELSE t

\* if max_h_pts and target_h > max_h_pts: ...   (max_height_mm = 0: no cap)
ClampHeight(t, max_height_mm, ratio) ==
    LET max_h_pts == RatMul(Rat(max_height_mm, 1), mm)
    IN  IF max_height_mm # 0 /\ RatGt(t.h, max_h_pts)
        THEN [w |-> RatDiv(max_h_pts, ratio), h |-> max_h_pts]
        ELSE t

\* the page step left out
ClampPageOff(t, ratio) == t

\* if target_w > page_available: ...
ClampPage(t, ratio) ==
    IF RatGt(t.w, PageAvailable)
    THEN [w |-> PageAvailable, h |-> RatMul(PageAvailable, ratio)]
    ELSE t

\* the result of get_rl_image_from_pil when it returns None
NoImage == [made |-> FALSE]

\* get_rl_image_from_pil: the width and height of the flowable it returns
GetRlImageFromPil(pil, max_width_mm, max_height_mm) ==
    IF pil.w_px <= 0 \/ pil.h_px <= 0 THEN NoImage
    ELSE LET ratio == Ratio(pil)
             t0 == [w |-> WPts(pil), h |-> HPts(pil)]
             t1 == ClampWidth(t0, RatMul(Rat(max_width_mm, 1), mm), ratio)
             t2 == ClampHeight(t1, max_height_mm, ratio)
             t3 == ClampPage(t2, ratio)
         IN  IF t3.w.n <= 0 \/ t3.h.n <= 0 THEN NoImage
             ELSE [made |-> TRUE, width |-> t3.w, height |-> t3.h]

\* The images and the caps the function is called with.
PixelSizes == {1, 3, 100, 600, 1000}
Dpis == {0, 72, 300}
WidthCaps == {1, 45, 180, 200, 300}
HeightCaps == {0, 1, 30, 300}

\* One call of get_rl_image_from_pil; a run makes one call.
FitImage(pil, max_width_mm, max_height_mm) ==
    /\ last = Idle
    /\ last' = Ran("fit", GetRlImageFromPil(pil, max_width_mm, max_height_mm),
                   <<>>, <<>>, 0,
                   [pil |-> pil, max_width_mm |-> max_width_mm,
                    max_height_mm |-> max_height_mm])
    /\ UNCHANGED <<active, trash, last_deleted, receipts, reports, page, inv_ent,
                   editing_base, items, tree, tax_ent, disc_ent, imgs, used>>

NextFit ==
    \E w \in PixelSizes, h \in PixelSizes, dpi \in Dpis,
       mw \in WidthCaps, mh \in HeightCaps :
       FitImage([w_px |-> w, h_px |-> h, dpi |-> dpi], mw, mh)

SpecFit == Init /\ [][NextFit]_vars

\* C19: for an image of non-zero area, a positive width cap and a height
\* cap that is positive or absent, the flowable is no wider than the image
\* at its resolution, the width cap and the width of the page between the
\* margins, no higher than the image at its resolution and the height cap,
\* and its height over its width is the image's height over its width.
C19_FitWithinCapsKeepsRatio ==
    last.op = "fit"
    => LET pil == last.pre.pil
           r == last.result
           mh == last.pre.max_height_mm
       IN  /\ r.made
           /\ RatLeq(r.width, WPts(pil))
           /\ RatLeq(r.height, HPts(pil))
           /\ RatLeq(r.width, RatMul(Rat(last.pre.max_width_mm, 1), mm))
           /\ mh # 0 => RatLeq(r.height, RatMul(Rat(mh, 1), mm))
           /\ RatLeq(r.width, PageAvailable)
           /\ RatDiv(r.height, r.width) = Ratio(pil)

\* A call in which the height cap cuts the height and the page then cuts
\* the width: 600 x 3 pixels at 72 dpi, caps of 300 mm and 1 mm.
C19_Witness ==
    /\ last.op = "fit"
    /\ last.pre.pil = [w_px |-> 600, h_px |-> 3, dpi |-> 0]
    /\ last.pre.max_width_mm = 300
    /\ last.pre.max_height_mm = 1
    /\ last.result.width = PageAvailable
    /\ RatGt(RatMul(Rat(1, 1), mm), last.result.height)


\* C20 as stated: with no height cap and a width cap below the width of
\* the image at its resolution, the flowable is as wide as the width cap
\* and its height over its width is the image's height over its width.
C20_WidthCapIsTheWidth ==
    ( /\ last.op = "fit"
      /\ last.pre.max_height_mm = 0
      /\ RatGt(WPts(last.pre.pil), RatMul(Rat(last.pre.max_width_mm, 1), mm)) )
    => /\ last.result.made
       /\ last.result.width = RatMul(Rat(last.pre.max_width_mm, 1), mm)
       /\ RatDiv(last.result.height, last.result.width) = Ratio(last.pre.pil)

\* C20 amended: the same for a width cap that is also no wider than the
\* page between the margins.
C20_WidthCapWithinPageIsTheWidth ==
    ( /\ last.op = "fit"
      /\ last.pre.max_height_mm = 0
      /\ RatGt(WPts(last.pre.pil), RatMul(Rat(last.pre.max_width_mm, 1), mm))
      /\ RatLeq(RatMul(Rat(last.pre.max_width_mm, 1), mm), PageAvailable) )
    => /\ last.result.made
       /\ last.result.width = RatMul(Rat(last.pre.max_width_mm, 1), mm)
       /\ RatDiv(last.result.height, last.result.width) = Ratio(last.pre.pil)

\* An image of 600 x 100 pixels at 72 dpi fitted to 45 mm with no height
\* cap: 45 mm wide and 7.5 mm high.
C20_Witness ==
    /\ last.op = "fit"
    /\ last.pre.pil = [w_px |-> 600, h_px |-> 100, dpi |-> 72]
    /\ last.pre.max_width_mm = 45
    /\ last.pre.max_height_mm = 0
    /\ last.result.width = RatMul(Rat(45, 1), mm)
    /\ last.result.height = RatMul(Rat(15, 2), mm)


-----------------------------------------------------------------------------
(* Trimming the background of an image: pil_trim_whitespace                *)
(* An image is [mode, w, h, px]: px maps <<x, y>>, 0 <= x < w, 0 <= y < h, *)
(* to "white" (the background colour), "ink" (another colour) or "clear"   *)
(* (a pixel of alpha 0, in mode RGBA only).  [mode |-> "broken"] is an     *)
(* object whose methods raise.                                             *)

Broken == [mode |-> "broken"]

\* the pixel positions of an image of w x h pixels
Positions(w, h) == (0..(w - 1)) \X (0..(h - 1))

\* lines 90-99: the image pasted on the background colour through its alpha
\* band, or converted to RGB
Flatten(pil) ==
    [mode |-> "RGB", w |-> pil.w, h |-> pil.h,
     px |-> [q \in Positions(pil.w, pil.h) |->
                IF pil.mode = "RGBA" /\ pil.px[q] = "clear" THEN "white"
                ELSE pil.px[q]]]

\* ImageChops.difference(rgb, background): the positions that are not zero
Diff(rgb) == {q \in Positions(rgb.w, rgb.h) : rgb.px[q] # "white"}

SetMin(S) == CHOOSE x \in S : \A y \in S : x <= y
SetMax(S) == CHOOSE x \in S : \A y \in S : y <= x

\* a bounding box whose right and lower edge are the last column and row
GetBBoxInclusive(d) ==
    IF d = {} THEN <<>>
    ELSE <<SetMin({q[1] : q \in d}), SetMin({q[2] : q \in d}),
           SetMax({q[1] : q \in d}), SetMax({q[2] : q \in d})>>

\* Image.getbbox: <<>> (None) or <<left, upper, right, lower>>, right and
\* lower just past the last column and row
GetBBox(d) ==
    IF d = {} THEN <<>>
    ELSE <<SetMin({q[1] : q \in d}), SetMin({q[2] : q \in d}),
           SetMax({q[1] : q \in d}) + 1, SetMax({q[2] : q \in d}) + 1>>

\* Image.crop(box)
Crop(rgb, box) ==
    [mode |-> rgb.mode, w |-> box[3] - box[1], h |-> box[4] - box[2],
     px |-> [q \in Positions(box[3] - box[1], box[4] - box[2]) |->
                rgb.px[<<q[1] + box[1], q[2] + box[2]>>]]]

\* pil_trim_whitespace: what it returns; for an object whose methods raise
\* both try blocks end in their except and the object itself is returned
PilTrimWhitespace(pil) ==
    IF pil.mode = "broken" THEN pil
    ELSE LET rgb == Flatten(pil)
             bbox == GetBBox(Diff(rgb))
         IN  IF bbox # <<>> THEN Crop(rgb, bbox) ELSE rgb

\* The images given to the function: every image of at most TrimWidth
\* columns and one or two rows in the modes RGB and RGBA, and a broken one.
TrimWidth == 3
TrimHeights == {1, 2}

TrimInputs ==
    UNION { UNION { ( { [mode |-> "RGB", w |-> w, h |-> h, px |-> f] :
                          f \in [Positions(w, h) -> {"white", "ink"}] }
                      \cup
                      { [mode |-> "RGBA", w |-> w, h |-> h, px |-> f] :
                          f \in [Positions(w, h) -> {"white", "ink", "clear"}] } )
                    : h \in TrimHeights }
            : w \in 1..TrimWidth }

\* One call of pil_trim_whitespace; a run makes one call.
TrimImage(pil) ==
    /\ last = Idle
    /\ last' = Ran("trim", PilTrimWhitespace(pil), <<>>, <<>>, 0, pil)
    /\ UNCHANGED <<active, trash, last_deleted, receipts, reports, page, inv_ent,
                   editing_base, items, tree, tax_ent, disc_ent, imgs, used>>

NextTrim ==
    \/ \E pil \in TrimInputs : TrimImage(pil)
    \/ TrimImage(Broken)

SpecTrim == Init /\ [][NextTrim]_vars

-----------------------------------------------------------------------------
(* The editing mode and the target of a save                               *)

\* The files of dir2 that are new or differ from the file of dir1.
Written(dir1, dir2) ==
    {f \in DOMAIN dir2 : f \notin DOMAIN dir1 \/ dir2[f] # dir1[f]}

\* C22: a save leaves the editing mode as it is and writes only K.pdf and
\* K.json, where K is the record being edited whatever the Invoice # entry
\* holds, and the sanitized invoice number when no record is being edited;
\* a successful save of a new invoice sets the entry to the next number, a
\* save of an edited record leaves the entry alone.  An Edit that loads a
\* record makes it the record being edited, and only an Edit or New Invoice
\* changes the mode.
C22_EditingModeDecidesTarget ==
    [][ /\ last'.op = "save"
           => /\ editing_base' = editing_base
              /\ LET K == IF editing_base # <<>> THEN editing_base
                          ELSE SaveBase(<<>>, inv_ent)
                 IN  /\ Written(active, active') \subseteq {K \o PdfExt, K \o JsonExt}
                     /\ last'.result = "saved"
                        => /\ active'[K \o PdfExt] = PdfOf(BuildInvoiceData)
                           /\ active'[K \o JsonExt] = JsonOf(BuildInvoiceData)
              /\ editing_base # <<>> => inv_ent' = inv_ent
              /\ (editing_base = <<>> /\ last'.result = "saved")
                 => /\ inv_ent' = NextInvoiceNumber(active')
                    /\ inv_ent' # inv_ent
              /\ (editing_base = <<>> /\ last'.result # "saved")
                 => inv_ent' = inv_ent
        /\ (last'.op = "edit" /\ last'.result = "loaded")
           => editing_base' = Stem(last'.name)
        /\ editing_base' # editing_base
           => \/ last'.op = "edit"
              \/ /\ editing_base' = <<>>
                 /\ items' = <<>>
                 /\ page' = "invoice"
                 /\ inv_ent' = NextInvoiceNumber(active)
      ]_vars

\* A save of an edited record after the Invoice # entry was changed to
\* another number and another page was visited.
C22_Witness ==
    /\ last.op = "save"
    /\ last.result = "saved"
    /\ editing_base # <<>>
    /\ inv_ent # editing_base
    /\ last.name = editing_base
    /\ active[editing_base \o JsonExt].data.invoice_number = inv_ent


-----------------------------------------------------------------------------
(* What the listings and the numbering see of the trash folder             *)

\* C23: a file moved to the trash folder is in no listing and counts for
\* no invoice number until an undo moves it back: after every step each
\* entry of the receipts list and each row of the reports table is a file
\* of the invoices folder; the file a delete moved is gone from the folder,
\* the list and the table; and the number set after a save of a new
\* invoice is one more than the largest number of a record of the invoices
\* folder alone.
C23_TrashIsInvisible ==
    [][ /\ \A i \in DOMAIN receipts' : receipts'[i] \in DOMAIN active'
        /\ \A i \in DOMAIN reports' : reports'[i].jf \in DOMAIN active'
        /\ (last'.op = "delete" /\ last_deleted' # <<>>)
           => /\ last_deleted'[1] # <<>>
                 => /\ last'.name \notin DOMAIN active'
                    /\ \A i \in DOMAIN receipts' : receipts'[i] # last'.name
              /\ last_deleted'[2] # <<>>
                 => /\ Stem(last'.name) \o JsonExt \notin DOMAIN active'
                    /\ \A i \in DOMAIN reports' :
                          reports'[i].jf # Stem(last'.name) \o JsonExt
        /\ (last'.op = "save" /\ last'.result = "saved" /\ editing_base = <<>>)
           => LET nums == {KeyNumber(k) : k \in RecordKeys(active')}
              IN  \E m \in nums : /\ \A y \in nums : y <= m
                                  /\ inv_ent' = StrOf(m + 1)
      ]_vars

\* After a save of a new invoice the trash folder holds record 2, the
\* invoices folder does not, and the number suggested is 2 again.
C23_Witness ==
    /\ last.op = "save"
    /\ last.result = "saved"
    /\ editing_base = <<>>
    /\ <<"2">> \o JsonExt \in DOMAIN trash
    /\ <<"2">> \o JsonExt \notin DOMAIN active
    /\ inv_ent = <<"2">>


-----------------------------------------------------------------------------
(* The names of the two files of a record in the trash folder and back     *)

\* C24: when a delete moves the document and the metadata file of a record
\* to the trash folder, or an undo moves both files of the slot back, the
\* two files have the same stem where they arrive.
C24_PairKeepsOneStem ==
    [][ /\ ( /\ last'.op = "delete"
             /\ last_deleted' # <<>>
             /\ last_deleted'[1] # <<>>
             /\ last_deleted'[2] # <<>> )
           => Stem(last_deleted'[1]) = Stem(last_deleted'[2])
        /\ (last'.op = "undo" /\ last'.io = <<"moved", "moved">>)
           => \A f, g \in DOMAIN active' \ DOMAIN active : Stem(f) = Stem(g)
      ]_vars


-----------------------------------------------------------------------------
(* The number suggested for a new invoice and the files of the folder      *)

\* Saves, deletes and undos with their failures, New Invoice and the
\* pages; the Invoice # entry is left as the program sets it.
NextSuggest ==
    \/ \E d \in Within(DocOutcomes, "ok"), j \in Within(JsonOutcomes, "ok") :
          /\ used < MaxBudget
          /\ d # "ok" => j = "ok"
          /\ SaveInvoice(d, j)
          /\ Counted
    \/ \E n \in DOMAIN active :
          \E o1 \in Within(MoveOutcomes, "moved"), o2 \in Within(MoveOutcomes, "moved") :
             /\ used < MaxBudget
             /\ DeleteSelectedReceipt(n, o1, o2)
             /\ Counted
    \/ \E o1 \in Within(MoveOutcomes, "moved"), o2 \in Within(MoveOutcomes, "moved") :
          /\ used < MaxBudget
          /\ UndoDelete(o1, o2)
          /\ Counted
    \/ NewInvoice /\ UNCHANGED used
    \/ \E p \in {"invoice", "receipts", "reports"} : ShowPage(p) /\ UNCHANGED used

SpecSuggest == Init /\ [][NextSuggest]_vars

\* C25: while no record is being edited, the number in the Invoice # entry
\* is the key of no document and of no metadata file of the invoices folder.
C25_SuggestedNumberIsFree ==
    editing_base = <<>>
    => \A f \in DOMAIN active :
          Lower(Ext(f)) \in {PdfExt, JsonExt} => Stem(f) # inv_ent


-----------------------------------------------------------------------------
(* Undo after undo                                                         *)

-----------------------------------------------------------------------------
(* What the undo slot names                                                *)

\* C27: after every step each path of the undo slot names a file of the
\* trash folder; a delete puts into the slot only files it moved there
\* itself; no other step puts anything into the slot; and when a file
\* leaves the trash folder the slot is emptied.
C27_SlotNamesLastDeleteOnly ==
    [][ /\ SlotFiles' \subseteq DOMAIN trash'
        /\ last'.op = "delete"
           => /\ SlotFiles' \cap DOMAIN trash = {}
              /\ \A f \in SlotFiles' : trash'[f] \in {active[g] : g \in DOMAIN active}
        /\ last'.op # "delete"
           => (last_deleted' = last_deleted \/ last_deleted' = <<>>)
        /\ DOMAIN trash \ DOMAIN trash' # {} => last_deleted' = <<>>
      ]_vars

\* After a second delete the slot names the two files it moved; the trash
\* folder also holds the two files of the first delete.
C27_Witness ==
    /\ last.op = "delete"
    /\ Cardinality(SlotFiles) = 2
    /\ SlotFiles \subseteq DOMAIN trash
    /\ Cardinality(DOMAIN trash \ SlotFiles) = 2


-----------------------------------------------------------------------------
(* The item table and the item list                                        *)

\* The handlers of SpecItems and New Invoice.
NextTable ==
    \/ NextItems
    \/ NewInvoice /\ UNCHANGED used

SpecTable == Init /\ [][NextTable]_vars

\* C28: after every step the item table has as many rows as the item list
\* has items and row i shows item i; a removal takes row k out of the table
\* and item k out of the list, k being the row that was selected.
C28_TableFollowsList ==
    [][ /\ Len(tree') = Len(items')
        /\ \A i \in DOMAIN items' :
              /\ tree'[i].desc = items'[i].desc
              /\ tree'[i].qty = items'[i].qty
              /\ tree'[i].unit = items'[i].unit_price
        /\ last'.op = "remove"
           => LET k == last'.count + 1
              IN  /\ k \in DOMAIN tree /\ k \in DOMAIN items
                  /\ tree' = [i \in 1..(Len(tree) - 1) |->
                                 IF i < k THEN tree[i] ELSE tree[i + 1]]
                  /\ items' = [i \in 1..(Len(items) - 1) |->
                                  IF i < k THEN items[i] ELSE items[i + 1]]
      ]_vars

\* The first of two different items was removed: the one row left shows
\* the one item left.
C28_Witness ==
    /\ last.op = "remove"
    /\ last.count = 0
    /\ Len(tree) = 1
    /\ Len(items) = 1
    /\ tree[1].desc = "Widget"
    /\ items[1] = Item("Widget", 20, 1000)

-----------------------------------------------------------------------------
(* The three places a record's totals are shown                             *)

\* The record of metadata file jf is the record the invoice form holds, and
\* its document is in the active folder.
SameRecord(jf) ==
    /\ Exists(active, jf) /\ active[jf].kind = "json"
    /\ Exists(active, Stem(jf) \o PdfExt)
    /\ active[Stem(jf) \o PdfExt].kind = "pdf"
    /\ active[jf].data.items = items
    /\ active[Stem(jf) \o PdfExt].data.items = items
    /\ FloatOf(tax_ent).ok /\ FloatOf(disc_ent).ok
    /\ active[jf].data.tax_rate = FloatOf(tax_ent).val
    /\ active[jf].data.discount = FloatOf(disc_ent).val
    /\ active[Stem(jf) \o PdfExt].data.tax_rate = FloatOf(tax_ent).val
    /\ active[Stem(jf) \o PdfExt].data.discount = FloatOf(disc_ent).val

\* C29: for one record (same items, tax rate and discount, every field
\* parseable) the subtotal and the total on the invoice form, in the rendered
\* document and in the reports row are equal to two decimals.
C29_ThreeTotalsAgree ==
    \A i \in DOMAIN reports :
       SameRecord(reports[i].jf)
       => LET doc == active[Stem(reports[i].jf) \o PdfExt].totals
          IN  /\ subtotal_var = doc.subtotal
              /\ doc.subtotal = reports[i].subtotal
              /\ total_var = doc.total
              /\ doc.total = reports[i].total


-----------------------------------------------------------------------------
(* A save of an edited record whose files were deleted meanwhile           *)

\* The keys of the files of a folder.
Keys(dir) == {Stem(f) : f \in DOMAIN dir}

\* C30: a save while a record is being edited writes only files whose key
\* is a key of the invoices folder at the time of the save, and an undo that
\* follows such a save puts every file it takes out of the trash folder into
\* the invoices folder under the name it was deleted with.
C30_EditingSaveOnlyOverwrites ==
    [][ /\ (last'.op = "save" /\ editing_base # <<>>)
           => \A f \in Written(active, active') : Stem(f) \in Keys(active)
        /\ (last.op = "save" /\ editing_base # <<>> /\ last'.op = "undo")
           => \A f \in DOMAIN trash \ DOMAIN trash' :
                 /\ Exists(active', f)
                 /\ active'[f] = trash[f]
      ]_vars

=============================================================================
